---- MODULE Spec2Model ----
(***************************************************************************)
(* A model of talus_client/cmds/images.py (ImageCmd): the snapshot-tree    *)
(* builder (_show_image_in_tree, _get_tree_lines), the guarded delete and  *)
(* configure commands, the create and edit validation, and the two status  *)
(* pollers (the delete loop of do_delete and _wait_for_image).             *)
(*                                                                         *)
(* The remote service is the environment: it owns the forest of images     *)
(* (base_image pointers and the order of its listing) and answers every    *)
(* remote call (image_delete, image_configure, image_create, save,         *)
(* refresh) with a result the model draws from small sets.                 *)
(***************************************************************************)
EXTENDS Integers, Sequences, FiniteSets, TLC

\* ------------------------------------------------------------------ bounds
MaxImages == 3
MaxRefresh == 3
MaxRounds == 2

\* ------------------------------------------------------------------ values
Images == 1..MaxImages

Min(S) == CHOOSE x \in S : \A y \in S : x <= y

\* base_image of a root image, a field that was never set, a null result.
Null == 0

\* A key that a status mapping does not hold.
Absent == "<absent>"

StatusNames == {"create", "configuring", "ready", "delete"}
ErrorTexts == {"disk busy"}
VncUris == {"vnc://host:5901"}

\* image.status as the pollers read it: status["name"], the optional
\* status["error"] and the optional status["vnc"]["vnc"]["uri"].
StatusSet ==
    [name : StatusNames, error : ErrorTexts \cup {Absent}, vnc : {Absent}]
    \cup [name : {"configuring"}, error : ErrorTexts \cup {Absent}, vnc : VncUris]

NoStatus == [name |-> Absent, error |-> Absent, vnc |-> Absent]

\* Python's None in a text field (os, name)
NoneText == "<None>"

\* os, name and base_image of a new Image(), and of no image at all
NoFields == [os |-> NoneText, name |-> NoneText, base_image |-> Null]

OsValues == {NoneText, "win7"}
NameValues == {NoneText, "", "win7 test"}

\* a base image given to create or edit: none, or the first image
BaseValues == {Null, Min(Images)}

\* str(e) of the failure refresh() raises when the record is gone remotely,
\* and of any other remote failure.
NotFoundText == "model no longer exists"
RemoteErrorText == "connection refused"

\* a remote call that fails instead of returning, with the str(e) of its failure
Failure(text) == [raises |-> text]
RefreshFailures == {Failure(NotFoundText), Failure(RemoteErrorText)}

\* a remote call that returns null instead of an image
NullResult == [null |-> TRUE]

\* ------------------------------------------------------------------ state
VARIABLES
    base,        \* base[i]: base_image of image i in the remote service (Null: root)
    listing,     \* the order in which the remote lists the images
    cmd,         \* the command being run ("none" between commands)
    pc,          \* position: idle, a polling loop, an editing loop, done, raised
    image,       \* the image the command resolved or received (Null: none)
    status,      \* the local copy of image.status
    interactive, \* the interactive flag of the running create/configure
    fields,      \* os / name / base_image of the image being created or edited
    out,         \* what self.ok and self.err reported in this command
    calls,       \* the remote calls made in this command, in order
    exc,         \* the exception raised in this command (Absent: none)
    tree,        \* the ancestor chain _show_image_in_tree built
    lines,       \* the display lines of the last tree rendering
    nrefresh,    \* refresh() calls made by the running poller
    rounds       \* editor rounds of the running create/edit

vars == <<base, listing, cmd, pc, image, status, interactive, fields, out, calls,
          exc, tree, lines, nrefresh, rounds>>

db == <<base, listing>>

\* ------------------------------------------------------------------ forest
RECURSIVE Up(_, _, _)
\* The image k base_image steps above i: Null when a root was passed.
Up(b, i, k) == IF i = Null THEN Null ELSE IF k = 0 THEN i ELSE Up(b, b[i], k - 1)

\* The remote service keeps the images a forest: no base_image cycle.
Forests == {b \in [Images -> Images \cup {Null}] : \A i \in Images : Up(b, i, MaxImages) = Null}

RECURSIVE Perms(_)
Perms(S) ==
    IF S = {} THEN {<<>>}
    ELSE UNION {{<<x>> \o p : p \in Perms(S \ {x})} : x \in S}

Identity == [k \in Images |-> k]

\* the forest in which every image but the first is a snapshot of the first
Star == [i \in Images |-> IF i = Min(Images) THEN Null ELSE Min(Images)]

SeqRange(s) == {s[k] : k \in 1..Len(s)}

\* image.children(): the images whose base_image is this image, in the order
\* of the remote listing.
Children(b, lst, i) == SelectSeq(lst, LAMBDA x : b[x] = i)

\* ------------------------------------------------------------------ tree builder
Reverse(s) == [k \in 1..Len(s) |-> s[Len(s) + 1 - k]]

RECURSIVE ClimbLoop(_, _, _)
\* the while loop of _show_image_in_tree: find_one(base_image), append
ClimbLoop(b, curr_image, acc) ==
    IF b[curr_image] = Null THEN acc
    ELSE ClimbLoop(b, b[curr_image], Append(acc, b[curr_image]))

AncestorsNoReverse(b, i) == ClimbLoop(b, i, <<>>)

\* the ancestor chain after tree.reverse()
Ancestors(b, i) == Reverse(ClimbLoop(b, i, <<>>))

\* the indent of a display line, one token per glyph group
Indent(indent_level) ==
    IF indent_level = 0 THEN <<>>
    ELSE [k \in 1..indent_level |-> IF k < indent_level THEN "pad" ELSE "elbow"]

Line(i, indent_level) == [image |-> i, text |-> Append(Indent(indent_level), i)]

\* the indent level a display line was emitted at
Depth(line) == Len(line.text) - 1

RECURSIVE GetTreeLines(_, _, _, _, _, _)
RECURSIVE EachChild(_, _, _, _, _)

\* the for loop of _get_tree_lines over image.children()
EachChild(b, lst, kids, acc, indent_level) ==
    IF kids = <<>> THEN acc
    ELSE EachChild(b, lst, Tail(kids),
                   GetTreeLines(b, lst, Head(kids), acc, indent_level + 1, TRUE),
                   indent_level)

GetTreeLinesChildrenFirst(b, lst, i, acc, indent_level, recurse) ==
    IF recurse
    THEN Append(EachChild(b, lst, Children(b, lst, i), acc, indent_level),
                Line(i, indent_level))
    ELSE Append(acc, Line(i, indent_level))

GetTreeLines(b, lst, i, acc, indent_level, recurse) ==
    IF recurse
    THEN EachChild(b, lst, Children(b, lst, i), Append(acc, Line(i, indent_level)),
                   indent_level)
    ELSE Append(acc, Line(i, indent_level))

RECURSIVE AncestorLines(_, _, _, _, _)
\* the for loop of _show_image_in_tree over the ancestors, recurse=False
AncestorLines(b, lst, chain, acc, idx) ==
    IF chain = <<>> THEN acc
    ELSE AncestorLines(b, lst, Tail(chain),
                       GetTreeLines(b, lst, Head(chain), acc, idx, FALSE), idx + 1)

\* the lines _show_image_in_tree hands to _print_snapshot_tree
ShowLines(b, lst, i) ==
    GetTreeLines(b, lst, i, AncestorLines(b, lst, Ancestors(b, i), <<>>, 0),
                 Len(Ancestors(b, i)), TRUE)

RECURSIVE RootLines(_, _, _, _)
\* the for loop of _print_snapshot_tree over the base images
RootLines(b, lst, roots, acc) ==
    IF roots = <<>> THEN acc
    ELSE RootLines(b, lst, Tail(roots), GetTreeLines(b, lst, Head(roots), acc, 0, TRUE))

\* ------------------------------------------------------------------ reports
Ok(text, arg) == [kind |-> "ok", text |-> text, arg |-> arg]
Err(text, arg) == [kind |-> "err", text |-> text, arg |-> arg]

\* ------------------------------------------------------------------ initial states
Fresh ==
    /\ cmd = "none"
    /\ pc = "idle"
    /\ image = Null
    /\ status = NoStatus
    /\ interactive = FALSE
    /\ fields = NoFields
    /\ out = <<>>
    /\ calls = <<>>
    /\ exc = Absent
    /\ tree = <<>>
    /\ lines = <<>>
    /\ nrefresh = 0
    /\ rounds = 0

InitTree ==
    /\ base \in Forests
    /\ listing \in Perms(Images)
    /\ Fresh

\* ------------------------------------------------------------------ tree commands
\* do_info: resolve the image, print its fields, show it in the snapshot tree.
\* _show_image_in_tree ends with image.refresh(), which may fail.
DoInfo(i, refresh_fails) ==
    /\ pc = "idle"
    /\ cmd' = "info"
    /\ image' = i
    /\ tree' = Ancestors(base, i)
    /\ calls' = <<"find_one", "children", "refresh">>
    /\ IF refresh_fails
       THEN /\ lines' = <<>>
            /\ exc' = NotFoundText
            /\ pc' = "raised"
       ELSE /\ lines' = ShowLines(base, listing, i)
            /\ exc' = Absent
            /\ pc' = "done"
    /\ UNCHANGED <<db, status, interactive, fields, out, nrefresh, rounds>>

\* do_tree: the whole snapshot tree, from the root images in listing order.
DoTree ==
    /\ pc = "idle"
    /\ cmd' = "tree"
    /\ lines' = RootLines(base, listing, Children(base, listing, Null), <<>>)
    /\ calls' = <<"objects", "children">>
    /\ pc' = "done"
    /\ UNCHANGED <<db, image, status, interactive, fields, out, exc, tree, nrefresh,
                   rounds>>

\* the command loop: the command returned or its exception was displayed; the
\* shell goes on with the next command.
CmdLoop ==
    /\ pc \in {"done", "raised"}
    /\ cmd' = "none"
    /\ pc' = "idle"
    /\ image' = Null
    /\ status' = NoStatus
    /\ interactive' = FALSE
    /\ fields' = NoFields
    /\ out' = <<>>
    /\ calls' = <<>>
    /\ exc' = Absent
    /\ tree' = <<>>
    /\ lines' = <<>>
    /\ nrefresh' = 0
    /\ rounds' = 0
    /\ UNCHANGED db

\* ------------------------------------------------------------------ remote calls
Call(op, res) == [op |-> op, res |-> res]

\* the image a created or imported image is, before the remote lists it
NewImage == MaxImages + 1

\* a mutation endpoint that fails instead of returning
Raises == Failure(RemoteErrorText)

\* ------------------------------------------------------------------ guard (4.3)
HasDependentsOffByOne(kids) == Len(kids) > 1

\* len(image.children()) > 0
HasDependents(kids) == Len(kids) > 0

\* ------------------------------------------------------------------ delete poller
DeleteLoopsUntilReady(st) == st.name # "ready"

\* the while condition of the delete loop
DeleteLoops(st) == st.name = "delete"

DeleteOutcomeNoError(st) == Ok("image successfully deleted", Null)

\* after the loop: the error key decides between err and ok
DeleteOutcome(st) ==
    IF st.error # Absent
    THEN Err("could not delete image due to: ", st.error)
    ELSE Ok("image successfully deleted", Null)

DeleteExceptAllFail(text) == Err("could not delete image", Null)

DeleteExceptAllOk(text) == Ok("image successfully deleted!", Null)

\* the except branch: "model no longer exists" in str(e)
DeleteExcept(text) ==
    IF text = NotFoundText
    THEN Ok("image successfully deleted!", Null)
    ELSE Err("could not delete image", Null)

\* the loop test and what follows it, on the status just obtained
AfterDelete(st) ==
    IF DeleteLoops(st)
    THEN [pc |-> "delete_poll", out |-> <<>>, exc |-> Absent]
    ELSE [pc |-> "done", out |-> <<DeleteOutcome(st)>>, exc |-> Absent]

\* ------------------------------------------------------------------ wait poller
WaitTargetAlwaysReady(inter) == "ready"

WaitTargetAlwaysConfiguring(inter) == "configuring"

\* the status name _wait_for_image waits for
WaitTarget(inter) == IF inter THEN "configuring" ELSE "ready"

WaitLoopsStopOnError(st, inter) == st.name # WaitTarget(inter) /\ st.error = Absent

\* the while condition of _wait_for_image
WaitLoops(st, inter) == st.name # WaitTarget(inter)

\* after the loop: the reports; status["vnc"] missing is a KeyError
WaitExit(st, inter, img) ==
    IF inter
    THEN IF st.vnc = Absent
         THEN [pc |-> "raised", out |-> <<>>, exc |-> "KeyError"]
         ELSE [pc |-> "done",
               out |-> <<Ok("Image is up and running at ", st.vnc),
                         Ok("Shutdown (yes, nicely shut it down) to save your changes", Null)>>,
               exc |-> Absent]
    ELSE [pc |-> "done", out |-> <<Ok("image is ready for use", img)>>, exc |-> Absent]

\* the loop test and what follows it, on the status just obtained
AfterWait(st, inter, img) ==
    IF WaitLoops(st, inter)
    THEN [pc |-> "wait_poll", out |-> <<>>, exc |-> Absent]
    ELSE WaitExit(st, inter, img)

\* ------------------------------------------------------------------ commands
InitShell ==
    /\ base \in Forests
    /\ listing = Identity
    /\ Fresh

\* the image could not be resolved: image.children() on None
Unresolved(name) ==
    /\ pc = "idle"
    /\ cmd' = name
    /\ pc' = "raised"
    /\ exc' = "AttributeError"
    /\ UNCHANGED <<db, image, status, interactive, fields, out, calls, tree, lines,
                   nrefresh, rounds>>

\* the guard failed: err, _show_image_in_tree (whose refresh may fail), raise
Refuse(name, i, text, show_fails) ==
    /\ cmd' = name
    /\ image' = i
    /\ out' = <<Err(text, i)>>
    /\ tree' = Ancestors(base, i)
    /\ calls' = <<Call("children", Children(base, listing, i)), Call("refresh", Null)>>
    /\ lines' = IF show_fails THEN <<>> ELSE ShowLines(base, listing, i)
    /\ exc' = IF show_fails THEN NotFoundText ELSE "TalusApiError"
    /\ pc' = "raised"
    /\ UNCHANGED <<db, status, interactive, fields, nrefresh, rounds>>

\* do_delete up to its first wait: resolve, guard, image_delete, first loop test
DoDelete(i, show_fails, res) ==
    /\ pc = "idle"
    /\ IF HasDependents(Children(base, listing, i))
       THEN Refuse("delete", i, "Cannot delete image! it has dependent snapshots!",
                   show_fails)
       ELSE /\ cmd' = "delete"
            /\ image' = i
            /\ calls' = <<Call("children", Children(base, listing, i)),
                          Call("image_delete", i)>>
            /\ IF res = Raises
               THEN /\ pc' = "raised"
                    /\ exc' = RemoteErrorText
                    /\ UNCHANGED <<status, out>>
               ELSE IF res = NullResult
               THEN /\ pc' = "done"
                    /\ UNCHANGED <<status, out, exc>>
               ELSE /\ status' = res
                    /\ pc' = AfterDelete(res).pc
                    /\ out' = AfterDelete(res).out
                    /\ exc' = AfterDelete(res).exc
            /\ UNCHANGED <<db, interactive, fields, tree, lines, nrefresh, rounds>>

\* one turn of the delete loop: sleep, refresh, loop test; or the except branch
DeleteRefresh(res) ==
    /\ pc = "delete_poll"
    /\ nrefresh < MaxRefresh
    /\ nrefresh' = nrefresh + 1
    /\ calls' = Append(calls, Call("refresh", Null))
    /\ IF res \in RefreshFailures
       THEN /\ exc' = res.raises
            /\ out' = Append(out, DeleteExcept(res.raises))
            /\ pc' = "done"
            /\ UNCHANGED status
       ELSE /\ status' = res
            /\ pc' = AfterDelete(res).pc
            /\ out' = out \o AfterDelete(res).out
            /\ exc' = AfterDelete(res).exc
    /\ UNCHANGED <<db, cmd, image, interactive, fields, tree, lines, rounds>>

\* do_configure up to its first wait: resolve, guard, image_configure, first test
DoConfigure(i, inter, show_fails, res) ==
    /\ pc = "idle"
    /\ IF HasDependents(Children(base, listing, i))
       THEN /\ Refuse("configure", i,
                      "the image has dependent snapshots! cannot configure the image",
                      show_fails)
       ELSE /\ cmd' = "configure"
            /\ image' = i
            /\ interactive' = inter
            /\ calls' = <<Call("children", Children(base, listing, i)),
                          Call("image_configure", i)>>
            /\ IF res = Raises
               THEN /\ pc' = "raised"
                    /\ exc' = RemoteErrorText
                    /\ UNCHANGED <<status, out>>
               ELSE IF res = NullResult
               THEN /\ pc' = "done"
                    /\ UNCHANGED <<status, out, exc>>
               ELSE /\ status' = res
                    /\ pc' = AfterWait(res, inter, i).pc
                    /\ out' = AfterWait(res, inter, i).out
                    /\ exc' = AfterWait(res, inter, i).exc
            /\ UNCHANGED <<db, fields, tree, lines, nrefresh, rounds>>

\* do_import: image_import, then _wait_for_image
DoImport(inter, res) ==
    /\ pc = "idle"
    /\ cmd' = "import"
    /\ interactive' = inter
    /\ calls' = <<Call("image_import", Null)>>
    /\ IF res = Raises
       THEN /\ pc' = "raised"
            /\ exc' = RemoteErrorText
            /\ UNCHANGED <<image, status, out>>
       ELSE /\ image' = NewImage
            /\ status' = res
            /\ pc' = AfterWait(res, inter, NewImage).pc
            /\ out' = AfterWait(res, inter, NewImage).out
            /\ exc' = AfterWait(res, inter, NewImage).exc
    /\ UNCHANGED <<db, fields, tree, lines, nrefresh, rounds>>

\* one turn of the loop of _wait_for_image: sleep, refresh, loop test; a failing
\* refresh is not caught
WaitRefresh(res) ==
    /\ pc = "wait_poll"
    /\ nrefresh < MaxRefresh
    /\ nrefresh' = nrefresh + 1
    /\ calls' = Append(calls, Call("refresh", Null))
    /\ IF res \in RefreshFailures
       THEN /\ exc' = res.raises
            /\ pc' = "raised"
            /\ UNCHANGED <<status, out>>
       ELSE /\ status' = res
            /\ pc' = AfterWait(res, interactive, image).pc
            /\ out' = out \o AfterWait(res, interactive, image).out
            /\ exc' = AfterWait(res, interactive, image).exc
    /\ UNCHANGED <<db, cmd, image, interactive, fields, tree, lines, rounds>>

ImageResults == StatusSet \cup {Raises}
NullableResults == StatusSet \cup {NullResult, Raises}
RefreshResults == StatusSet \cup RefreshFailures

Next ==
    \/ \E name \in {"delete", "configure"} : Unresolved(name)
    \/ \E i \in Images, f \in BOOLEAN, res \in NullableResults : DoDelete(i, f, res)
    \/ \E res \in RefreshResults : DeleteRefresh(res)
    \/ \E i \in Images, inter \in BOOLEAN, f \in BOOLEAN, res \in NullableResults :
          DoConfigure(i, inter, f, res)
    \/ \E inter \in BOOLEAN, res \in ImageResults : DoImport(inter, res)
    \/ \E res \in RefreshResults : WaitRefresh(res)
    \/ CmdLoop

Spec == InitShell /\ [][Next]_vars

\* ------------------------------------------------------------------ create and edit
\* what the editor (model_cmd.cmdloop) can leave in the three required fields
FieldSet == [os : OsValues, name : NameValues, base_image : BaseValues]

\* the --os, --name and --base arguments of the non-interactive create
ArgSet == [os : OsValues, name : NameValues, base : BaseValues]

NameRequiredText == "You must specify an image name"
SaveFailedText == "save failed"

CreateStatus == [name |-> "create", error |-> Absent, vnc |-> Absent]

FieldErrorsNoBase(f) ==
    (IF f.os = NoneText THEN <<Err("You must specify the os", Null)>> ELSE <<>>)
    \o (IF f.name = NoneText \/ f.name = ""
        THEN <<Err("You must specify a name for the image", Null)>> ELSE <<>>)

\* the three checks of the editing loops, in their order
FieldErrors(f) ==
    (IF f.os = NoneText THEN <<Err("You must specify the os", Null)>> ELSE <<>>)
    \o (IF f.name = NoneText \/ f.name = ""
        THEN <<Err("You must specify a name for the image", Null)>> ELSE <<>>)
    \o (IF f.base_image = Null
        THEN <<Err("You must specify the base_image for your new image", Null)>>
        ELSE <<>>)

ArgErrorsNoBase(a) ==
    (IF a.os = NoneText THEN {Err("You must set the os", Null)} ELSE {})
    \cup (IF a.name = NoneText THEN {Err("You must set the name", Null)} ELSE {})

\* the validation table of the non-interactive create: getattr(args, k) is None
ArgErrors(a) ==
    (IF a.os = NoneText THEN {Err("You must set the os", Null)} ELSE {})
    \cup (IF a.base = Null THEN {Err("You must set the base", Null)} ELSE {})
    \cup (IF a.name = NoneText THEN {Err("You must set the name", Null)} ELSE {})

InitEdit ==
    /\ base = Star
    /\ listing = Identity
    /\ Fresh

\* do_create from its argument parser on: the name check, the validation table (a
\* dict, so its errors come in the order the dict iterates), image_create, the wait
CreateFromArgs(a, inter, res) ==
    /\ cmd' = "create"
    /\ IF a.name = NoneText
       THEN /\ pc' = "raised"
            /\ exc' = NameRequiredText
            /\ UNCHANGED <<image, status, interactive, out, calls>>
       ELSE IF ArgErrors(a) # {}
       THEN /\ out' \in {out \o p : p \in Perms(ArgErrors(a))}
            /\ pc' = "done"
            /\ UNCHANGED <<image, status, interactive, calls, exc>>
       ELSE /\ calls' = Append(calls, Call("image_create", a))
            /\ interactive' = inter
            /\ IF res = Raises
               THEN /\ pc' = "raised"
                    /\ exc' = RemoteErrorText
                    /\ UNCHANGED <<image, status, out>>
               ELSE /\ image' = NewImage
                    /\ status' = res
                    /\ pc' = AfterWait(res, inter, NewImage).pc
                    /\ out' = out \o AfterWait(res, inter, NewImage).out
                    /\ exc' = AfterWait(res, inter, NewImage).exc
    /\ UNCHANGED <<db, tree, lines, nrefresh, rounds>>

\* do_create, non-interactive
DoCreate(a, inter, res) ==
    /\ pc = "idle"
    /\ CreateFromArgs(a, inter, res)
    /\ UNCHANGED fields

\* do_create, interactive: a new Image() enters the editing loop
DoCreateShell ==
    /\ pc = "idle"
    /\ cmd' = "create"
    /\ pc' = "create_loop"
    /\ image' = NewImage
    /\ fields' = NoFields
    /\ status' = CreateStatus
    /\ interactive' = TRUE
    /\ UNCHANGED <<db, out, calls, exc, tree, lines, nrefresh, rounds>>

\* the editor of the interactive create was cancelled: break, and do_create goes
\* on into its argument parser with the arguments the command was given
CreateCancel(a, inter, res) ==
    /\ pc = "create_loop"
    /\ CreateFromArgs(a, inter, res)
    /\ UNCHANGED fields

\* one round of the interactive create: the editor, the checks, save, the wait
CreateRound(f, ui, save_fails) ==
    /\ pc = "create_loop"
    /\ rounds < MaxRounds
    /\ rounds' = rounds + 1
    /\ fields' = f
    /\ interactive' = ui
    /\ IF FieldErrors(f) # <<>>
       THEN /\ out' = out \o FieldErrors(f)
            /\ UNCHANGED <<pc, calls, exc>>
       ELSE /\ calls' = Append(calls, Call("save", f))
            /\ IF save_fails
               THEN /\ out' = Append(out, Err(SaveFailedText, Null))
                    /\ pc' = "done"
                    /\ exc' = SaveFailedText
               ELSE /\ out' = Append(out, Ok("created new image", NewImage))
                           \o AfterWait(status, ui, NewImage).out
                    /\ pc' = AfterWait(status, ui, NewImage).pc
                    /\ exc' = AfterWait(status, ui, NewImage).exc
    /\ UNCHANGED <<db, cmd, image, status, tree, lines, nrefresh>>

\* do_edit on an image that could not be resolved
EditUnresolved ==
    /\ pc = "idle"
    /\ cmd' = "edit"
    /\ pc' = "raised"
    /\ exc' = "could not find talus image"
    /\ UNCHANGED <<db, image, status, interactive, fields, out, calls, tree, lines,
                   nrefresh, rounds>>

\* do_edit: the resolved image enters the editing loop
DoEdit(i, os, name) ==
    /\ pc = "idle"
    /\ cmd' = "edit"
    /\ pc' = "edit_loop"
    /\ image' = i
    /\ fields' = [os |-> os, name |-> name, base_image |-> base[i]]
    /\ UNCHANGED <<db, status, interactive, out, calls, exc, tree, lines, nrefresh,
                   rounds>>

\* the editor of do_edit was cancelled: break, and do_edit returns
EditCancel ==
    /\ pc = "edit_loop"
    /\ pc' = "done"
    /\ UNCHANGED <<db, cmd, image, status, interactive, fields, out, calls, exc, tree,
                   lines, nrefresh, rounds>>

\* one round of do_edit: the editor, the checks, save
EditRound(f, save_fails) ==
    /\ pc = "edit_loop"
    /\ rounds < MaxRounds
    /\ rounds' = rounds + 1
    /\ fields' = f
    /\ IF FieldErrors(f) # <<>>
       THEN /\ out' = out \o FieldErrors(f)
            /\ UNCHANGED <<pc, calls, exc>>
       ELSE /\ calls' = Append(calls, Call("save", f))
            /\ pc' = "done"
            /\ IF save_fails
               THEN /\ out' = Append(out, Err(SaveFailedText, Null))
                    /\ exc' = SaveFailedText
               ELSE /\ out' = out \o <<Ok("edited image", image),
                                       Ok("note that this DOES NOT start the image for configuring!", Null)>>
                    /\ UNCHANGED exc
    /\ UNCHANGED <<db, cmd, image, status, interactive, tree, lines, nrefresh>>

NextEdit ==
    \/ \E a \in ArgSet, inter \in BOOLEAN, res \in ImageResults : DoCreate(a, inter, res)
    \/ DoCreateShell
    \/ \E a \in ArgSet, inter \in BOOLEAN, res \in ImageResults :
          CreateCancel(a, inter, res)
    \/ \E f \in FieldSet, ui \in BOOLEAN, sf \in BOOLEAN : CreateRound(f, ui, sf)
    \/ EditUnresolved
    \/ \E i \in Images, os \in OsValues, name \in NameValues \ {NoneText, ""} :
          DoEdit(i, os, name)
    \/ EditCancel
    \/ \E f \in FieldSet, sf \in BOOLEAN : EditRound(f, sf)
    \/ \E res \in RefreshResults : WaitRefresh(res)
    \/ CmdLoop

EditSpec == InitEdit /\ [][NextEdit]_vars

NextTree ==
    \/ \E i \in Images, f \in BOOLEAN : DoInfo(i, f)
    \/ DoTree
    \/ CmdLoop

TreeSpec == InitTree /\ [][NextTree]_vars

\* ------------------------------------------------------------------ helpers of the properties
\* the remote calls of the running command with one of the given names
CallsOf(ops) == {k \in 1..Len(calls) : calls[k].op \in ops}

Mutations == {"image_delete", "image_configure"}

\* the images below i in the forest, i included: read off base, not off children()
Subtree(i) == {x \in Images : \E k \in 0..MaxImages : Up(base, x, k) = i}

\* the images above i in the forest
ProperAncestors(i) == {x \in Images : \E k \in 1..MaxImages : Up(base, i, k) = x}

\* where the remote listing has image x
Pos(x) == CHOOSE k \in 1..Len(listing) : listing[k] = x

\* line k of seg stands below its parent: the nearest line above it that is less
\* deep is its base image, exactly one level up
BelowParent(seg, k) ==
    \E j \in 1..(k - 1) :
        /\ seg[j].image = base[seg[k].image]
        /\ Depth(seg[k]) = Depth(seg[j]) + 1
        /\ \A m \in (j + 1)..(k - 1) : Depth(seg[m]) > Depth(seg[j])

\* lines of images with the same base image come in the order of the listing
SiblingsInListingOrder(seg) ==
    \A j, k \in 1..Len(seg) :
        (j < k /\ base[seg[j].image] = base[seg[k].image])
            => Pos(seg[j].image) < Pos(seg[k].image)

\* seg is the pre-order of the subtree of start, start at depth d
PreOrderOf(seg, start, d) ==
    /\ Len(seg) = Cardinality(Subtree(start))
    /\ {seg[k].image : k \in 1..Len(seg)} = Subtree(start)
    /\ seg[1].image = start
    /\ Depth(seg[1]) = d
    /\ \A k \in 2..Len(seg) : BelowParent(seg, k)
    /\ SiblingsInListingOrder(seg)

Polling == cmd \in {"configure", "import", "create"} /\ status # NoStatus

\* ------------------------------------------------------------------ C1
\* C1: in do_delete and do_configure, an image that has a child in the forest makes
\* the command end in an exception after one error report, with the subtree
\* rendered whenever the exception is the command's own TalusApiError, and no
\* image_delete / image_configure call is made; and every image_delete /
\* image_configure call of a command comes after a children() call of the same
\* command that returned the empty sequence.
C1_GuardBeforeMutation ==
    cmd \in {"delete", "configure"} =>
        /\ (image # Null /\ \E x \in Images : base[x] = image) =>
              /\ pc = "raised"
              /\ CallsOf(Mutations) = {}
              /\ Len(out) = 1 /\ out[1].kind = "err"
              /\ exc = "TalusApiError" =>
                    /\ Len(lines) >= 2
                    /\ \A x \in Subtree(image) : \E k \in 1..Len(lines) : lines[k].image = x
        /\ \A k \in CallsOf(Mutations) :
              \E j \in 1..(k - 1) : calls[j].op = "children" /\ calls[j].res = <<>>
        /\ \A j \in CallsOf({"children"}) : calls[j].res # <<>> => CallsOf(Mutations) = {}

C1_Witness ==
    /\ cmd = "delete"
    /\ pc = "raised"
    /\ exc = "TalusApiError"
    /\ Len(lines) >= 2
    /\ Cardinality({x \in Images : base[x] = image}) = 1

\* ------------------------------------------------------------------ C2
\* C2: in the delete loop, a refresh that fails because the record no longer exists,
\* after any number of refreshes that left status.name = "delete", ends the loop
\* with the one report "image successfully deleted!" and no failure report.
C2_NotFoundIsSuccess ==
    (cmd = "delete" /\ nrefresh >= 1 /\ exc = NotFoundText) =>
        /\ pc = "done"
        /\ status.name = "delete"
        /\ out = <<Ok("image successfully deleted!", Null)>>

C2_Witness ==
    /\ cmd = "delete"
    /\ exc = NotFoundText
    /\ nrefresh = 3
    /\ pc = "done"
    /\ out # <<>>

\* ------------------------------------------------------------------ C3
\* C3 as claimed: any status with an error key that a refresh of the delete loop
\* returns ends the loop with a failure report carrying that message, whatever its
\* status.name.
C3_Original ==
    (cmd = "delete" /\ nrefresh >= 1 /\ exc = Absent /\ status.error # Absent) =>
        /\ pc = "done"
        /\ out = <<Err("could not delete image due to: ", status.error)>>

\* C3 as amended: a status with an error key that a refresh of the delete loop
\* returns ends the loop with a failure report carrying that message verbatim when
\* its status.name is not "delete"; while status.name is "delete" the loop goes on
\* and reports nothing, error key or not.
C3_ErrorOnceNotDeleting ==
    (cmd = "delete" /\ nrefresh >= 1 /\ exc = Absent) =>
        /\ (status.error # Absent /\ status.name # "delete") =>
              /\ pc = "done"
              /\ out = <<Err("could not delete image due to: ", status.error)>>
        /\ status.name = "delete" => (pc = "delete_poll" /\ out = <<>>)

C3_Witness ==
    /\ cmd = "delete"
    /\ nrefresh >= 1
    /\ exc = Absent
    /\ status.error = "disk busy"
    /\ status.name # "delete"
    /\ pc = "done"

\* ------------------------------------------------------------------ C4
\* C4 as claimed: a failure of refresh in the delete loop other than "the record
\* does not exist" propagates out of do_delete to the command loop.
C4_Original ==
    (cmd = "delete" /\ nrefresh >= 1 /\ exc \notin {Absent, NotFoundText}) => pc = "raised"

\* C4 as amended: only the "model no longer exists" failure of refresh is reported
\* as success; any other failure raised in the delete loop is caught inside
\* do_delete and reported as the failure "could not delete image", and do_delete
\* returns without raising.
C4_OtherFailureReported ==
    (cmd = "delete" /\ nrefresh >= 1 /\ exc # Absent) =>
        /\ pc = "done"
        /\ Len(out) = 1
        /\ out[1].kind = "ok" <=> exc = NotFoundText
        /\ exc # NotFoundText => out[1] = Err("could not delete image", Null)

C4_Witness ==
    /\ cmd = "delete"
    /\ nrefresh >= 1
    /\ exc = RemoteErrorText
    /\ pc = "done"
    /\ out = <<Err("could not delete image", Null)>>

\* ------------------------------------------------------------------ C5
\* C5: the interactive wait goes on refreshing only while status.name is not
\* "configuring" and reports nothing meanwhile; the first status named
\* "configuring" stops it, "ready" does not; what it then reports is the URI of
\* that status (a "configuring" status without a vnc entry makes the lookup raise
\* KeyError, and nothing is reported).
C5_InteractiveStopsAtConfiguring ==
    (Polling /\ cmd # "create" /\ interactive) =>
        /\ pc = "wait_poll" => (status.name # "configuring" /\ out = <<>>)
        /\ (status.name # "configuring" /\ exc = Absent) => pc = "wait_poll"
        /\ status.name = "configuring" =>
              /\ pc \in {"done", "raised"}
              /\ status.vnc # Absent =>
                    /\ pc = "done"
                    /\ Len(out) = 2
                    /\ out[1] = Ok("Image is up and running at ", status.vnc)
              /\ status.vnc = Absent => (pc = "raised" /\ exc = "KeyError" /\ out = <<>>)
        /\ out # <<>> => status.name = "configuring"

C5_Witness ==
    /\ cmd = "configure"
    /\ interactive
    /\ nrefresh >= 2
    /\ pc = "done"
    /\ status.name = "configuring"
    /\ Len(out) = 2
    /\ out[1].arg \in VncUris

\* ------------------------------------------------------------------ C6
\* C6: the non-interactive wait reports success only on a status named "ready",
\* exactly once and at the first such status, where it stops; a status named
\* "configuring" (or any other name) leaves it polling.
C6_NonInteractiveWaitsForReady ==
    (Polling /\ cmd # "create" /\ ~interactive) =>
        /\ out # <<>> =>
              /\ status.name = "ready"
              /\ out = <<Ok("image is ready for use", image)>>
        /\ status.name = "ready" => (pc = "done" /\ Len(out) = 1 /\ exc = Absent)
        /\ (status.name # "ready" /\ exc = Absent) => (pc = "wait_poll" /\ out = <<>>)

C6_Witness ==
    /\ cmd = "import"
    /\ ~interactive
    /\ nrefresh >= 2
    /\ pc = "done"
    /\ status.name = "ready"
    /\ Len(out) = 1

\* ------------------------------------------------------------------ C7
\* C7: the ancestor chain _show_image_in_tree builds is empty for a root image; for
\* any image it lists each image above it exactly once, the root first and the
\* image's own base image last, each the base image of the next, and never the
\* image itself.
C7_AncestorsRootFirst ==
    cmd = "info" =>
        /\ base[image] = Null => tree = <<>>
        /\ tree # <<>> => (base[tree[1]] = Null /\ tree[Len(tree)] = base[image])
        /\ \A k \in 1..(Len(tree) - 1) : base[tree[k + 1]] = tree[k]
        /\ SeqRange(tree) = ProperAncestors(image)
        /\ Len(tree) = Cardinality(ProperAncestors(image))
        /\ image \notin SeqRange(tree)

C7_Witness ==
    /\ cmd = "info"
    /\ Len(tree) = 2
    /\ tree[2] = base[image]
    /\ tree[1] = base[tree[2]]

\* ------------------------------------------------------------------ C8
\* C8: _get_tree_lines emits a pre-order. With recurse=False (the ancestors of
\* _show_image_in_tree) it emits the starting image alone at the given depth; with
\* recurse=True (the image itself, at depth len(tree); every root of do_tree, at
\* depth 0) it emits the starting image first at the given depth, then each image
\* of the subtree exactly once, each one level below its base image and after it,
\* siblings in the order children() returns them.
C8_PreOrder ==
    /\ (cmd = "info" /\ pc = "done") =>
          /\ Len(lines) = Len(tree) + Cardinality(Subtree(image))
          /\ \A k \in 1..Len(tree) : lines[k] = Line(tree[k], k - 1)
          /\ PreOrderOf(SubSeq(lines, Len(tree) + 1, Len(lines)), image, Len(tree))
    /\ cmd = "tree" =>
          /\ Len(lines) = MaxImages
          /\ {lines[k].image : k \in 1..Len(lines)} = Images
          /\ \A k \in 1..Len(lines) :
                IF base[lines[k].image] = Null
                THEN Depth(lines[k]) = 0
                ELSE BelowParent(lines, k)
          /\ SiblingsInListingOrder(lines)

C8_Witness ==
    /\ cmd = "info"
    /\ pc = "done"
    /\ Len(tree) = 0
    /\ Len(lines) = 3
    /\ base[lines[2].image] = image
    /\ base[lines[3].image] = image
    /\ lines[2].image > lines[3].image

C10_Original ==
    (Polling /\ status.error # Absent) => pc # "wait_poll"

\* C10 as amended: _wait_for_image never looks at the error key: in both modes the
\* wait ends exactly when status.name is the target name (or when refresh itself
\* raises), so a status that carries an error key and not the target name leaves
\* the poller polling, as long as such statuses keep coming.
C10_ErrorKeyNotExamined ==
    (Polling /\ exc = Absent /\ pc # "create_loop") =>
        /\ pc = "wait_poll" <=> status.name # (IF interactive THEN "configuring" ELSE "ready")
        /\ (status.error # Absent /\ pc = "wait_poll") => out = <<>>

C10_Witness ==
    /\ cmd = "import"
    /\ pc = "wait_poll"
    /\ nrefresh = MaxRefresh
    /\ status.error # Absent
    /\ exc = Absent

\* ------------------------------------------------------------------ C11
\* image_delete of the running do_delete has returned an image
DeleteReturnedImage ==
    cmd = "delete" /\ CallsOf({"image_delete"}) # {} /\ status # NoStatus

\* image_delete of the running do_delete has returned null
DeleteReturnedNull ==
    cmd = "delete" /\ CallsOf({"image_delete"}) # {} /\ status = NoStatus /\ pc = "done"

\* C11: in do_delete, once image_delete has returned an image, the command never
\* raises, it has reported exactly one message (one ok or one err) when it is done
\* and none before, no refresh follows that message, and every refresh is issued
\* from a status named "delete"; when image_delete returned null there is no
\* refresh and no message.
C11_OneOutcome ==
    /\ [](DeleteReturnedImage =>
            /\ pc \in {"delete_poll", "done"}
            /\ pc = "done" => (Len(out) = 1 /\ out[1].kind \in {"ok", "err"})
            /\ pc = "delete_poll" => (out = <<>> /\ status.name = "delete")
            /\ Cardinality(CallsOf({"refresh"})) = nrefresh)
    /\ [](DeleteReturnedNull => (out = <<>> /\ CallsOf({"refresh"}) = {} /\ nrefresh = 0))
    /\ [][(cmd = "delete" /\ cmd' = "delete" /\ Len(calls') > Len(calls))
            => (status.name = "delete" /\ out = <<>> /\ calls'[Len(calls')].op = "refresh")]_vars

C11_Witness ==
    /\ DeleteReturnedImage
    /\ pc = "done"
    /\ nrefresh = 2
    /\ exc = Absent
    /\ Len(out) = 1

====
